---- MODULE Spec2Model ----
(***************************************************************************)
(* Model of the epidemic simulation engine (epidemic_sim/model):           *)
(* SpatialGrid, Particle and EpidemicSimulation.                           *)
(*                                                                         *)
(* Units.  Lengths are integers in hundredths of a world unit (0.2 = 20).  *)
(* Probabilities and the per-agent factors are integers in percent         *)
(* (1.0 = 100).  fraction_infected_init is in thousandths (0.01 = 10).     *)
(* A call random.random() < p is the set of booleans it can return.        *)
(***************************************************************************)
EXTENDS Integers, Sequences, FiniteSets, TLC

VARIABLES
    mode,                  \* 'simple' or 'communities'
    params,                \* the global parameter bundle (config.parameters.params)
    attr,                  \* the Particle objects: id -> fields
    particles,             \* self.particles (list of ids)
    quarantine_particles,  \* self.quarantine_particles
    communities,           \* self.communities: comm_id -> [bounds, particles]
    spatial_grid,          \* self.spatial_grid.grid: cell -> list of ids
    time_count,
    day_count,
    initial_population,
    stats_day,             \* self.stats['day']
    last_marketplace_day,
    pass,                  \* what the last call did: its locals, log and emitted counts
    nearby,                \* the last get_nearby() call and its result
    time_step              \* self.time_step, in hundredths

vars == <<mode, params, attr, particles, quarantine_particles, communities,
          spatial_grid, time_count, day_count, initial_population, stats_day,
          last_marketplace_day, pass, nearby, time_step>>

(***************************************************************************)
(* Bounds of the model.                                                    *)
(***************************************************************************)
MaxParticles == 3
MaxPerCommunity == 1
MaxTicks == 2
MaxJourneyTicks == 4
MaxMovers == 1
MaxTravelers == 1
MaxAttendees == 1
MaxGridAgents == 2

(***************************************************************************)
(* Generic helpers.                                                        *)
(***************************************************************************)
Max(a, b) == IF a >= b THEN a ELSE b
Min(a, b) == IF a <= b THEN a ELSE b
Abs(a) == IF a >= 0 THEN a ELSE -a

\* Python's int(): truncation toward zero of the quotient a / b, b > 0.
int(a, b) == IF a >= 0 THEN a \div b ELSE -((-a) \div b)

Range(s) == {s[i] : i \in DOMAIN s}
NoDup(s) == \A i, j \in DOMAIN s : i /= j => s[i] /= s[j]

RECURSIVE Flatten(_)
Flatten(ss) == IF ss = <<>> THEN <<>> ELSE Head(ss) \o Flatten(Tail(ss))

\* the list without the first occurrence of e (list.remove)
RECURSIVE remove(_, _)
remove(s, e) ==
    IF s = <<>> THEN <<>>
    ELSE IF Head(s) = e THEN Tail(s)
    ELSE <<Head(s)>> \o remove(Tail(s), e)

\* random.random() < p, p in 1/one: can be TRUE iff p > 0, FALSE iff p < one
\* a roll that can also fail at probability one
Bernoulli_Closed(p, one) == {b \in BOOLEAN : (b => p > 0) /\ (~b => p <= one)}

\* random.random() <= p: a roll that can succeed at probability zero
Bernoulli_Inclusive(p, one) == {b \in BOOLEAN : (b => p >= 0) /\ (~b => p < one)}

Bernoulli(p, one) == {b \in BOOLEAN : (b => p > 0) /\ (~b => p < one)}

(***************************************************************************)
(* SpatialGrid (spatial_grid.py).  The grid is a defaultdict(list): a      *)
(* function from the cells that have a bucket to their lists.              *)
(***************************************************************************)
cell_size == 20

EmptyGrid == [c \in {} |-> <<>>]

clear(grid) == EmptyGrid

_hash(x, y) == <<int(x, cell_size), int(y, cell_size)>>

GridGet(grid, c) == IF c \in DOMAIN grid THEN grid[c] ELSE <<>>

insert(grid, p, x, y) ==
    LET cell == _hash(x, y)
    IN  [c \in DOMAIN grid \cup {cell} |->
            IF c = cell THEN Append(GridGet(grid, c), p) ELSE grid[c]]

\* range(-radius, radius) as a list: the last offset is lost
OffsetRange_Short(radius) == [k \in 1..(2 * radius) |-> k - radius - 1]

\* range(-radius, radius + 1) as a list
OffsetRange(radius) == [k \in 1..(2 * radius + 1) |-> k - radius - 1]

get_nearby(grid, x, y, radius) ==
    LET c  == _hash(x, y)
        rg == OffsetRange(radius)
        n  == Len(rg)
        \* the buckets in the order of the two nested loops (dx outer, dy inner)
        buckets == [k \in 1..(n * n) |->
                       GridGet(grid, <<c[1] + rg[((k - 1) \div n) + 1],
                                       c[2] + rg[((k - 1) % n) + 1]>>)]
    IN  Flatten(buckets)

\* the number of references the grid holds
RECURSIVE SumLen(_, _)
SumLen(grid, cells) ==
    IF cells = {} THEN 0
    ELSE LET c == CHOOSE c \in cells : TRUE
         IN  Len(grid[c]) + SumLen(grid, cells \ {c})
GridSize(grid) == SumLen(grid, DOMAIN grid)

(***************************************************************************)
(* The parameter bundle (config/parameters.py, SimParams.__init__).        *)
(* BaseParams is the default bundle scaled to the bounds of the model;     *)
(* ParamSpace is what the caller may have set before or between calls.     *)
(***************************************************************************)
BaseParams ==
    [infection_radius         |-> 15,
     prob_infection           |-> 15,
     fraction_infected_init   |-> 10,
     infection_duration       |-> 2,
     mortality_rate           |-> 0,
     prob_no_symptoms         |-> 0,
     social_distance_obedient |-> 100,
     boxes_to_consider        |-> 2,
     num_particles            |-> MaxParticles,
     time_steps_per_day       |-> 1,
     quarantine_enabled       |-> FALSE,
     quarantine_after         |-> 1,
     start_quarantine         |-> 0,
     travel_probability       |-> 0,
     num_per_community        |-> MaxPerCommunity,
     communities_to_infect    |-> 1,
     quarantine_duration      |-> 1,
     marketplace_enabled      |-> FALSE,
     marketplace_interval     |-> 1,
     marketplace_duration     |-> 1,
     marketplace_attendance   |-> 8,
     marketplace_x            |-> 0,
     marketplace_y            |-> 0,
     marketplace_community_id |-> 4]

\* one field of the bundle set to another value
StarParams(m) ==
    {BaseParams}
    \cup {[BaseParams EXCEPT !.infection_duration = 1]}
    \cup {[BaseParams EXCEPT !.prob_no_symptoms = 20]}
    \cup {[BaseParams EXCEPT !.quarantine_after = v] : v \in {0, 3}}
    \cup {[BaseParams EXCEPT !.start_quarantine = 2]}
    \cup {[BaseParams EXCEPT !.time_steps_per_day = 2]}
    \cup {[BaseParams EXCEPT !.quarantine_duration = 0]}
    \cup {[BaseParams EXCEPT !.fraction_infected_init = 0]}
    \cup (IF m = "communities"
          THEN {[BaseParams EXCEPT !.num_per_community = v] : v \in 1..MaxPerCommunity}
               \cup {[BaseParams EXCEPT !.travel_probability = 2]}
               \cup {[BaseParams EXCEPT !.communities_to_infect = 2]}
          ELSE {[BaseParams EXCEPT !.fraction_infected_init = v] : v \in {700, 1000}}
               \cup {[BaseParams EXCEPT !.prob_infection = 100]}
               \cup {[BaseParams EXCEPT !.num_particles = v] : v \in 0..MaxParticles})

MortalityRates == {0, 50, 100}

ParamSpace(m) ==
    {[p EXCEPT !.quarantine_enabled = q, !.mortality_rate = r] :
        p \in StarParams(m), q \in BOOLEAN, r \in MortalityRates}

\* 1.0 / time_steps_per_day, in hundredths
TimeStepOf(n) == 100 \div n

Modes == {"simple", "communities"}
States == {"susceptible", "infected", "removed", "dead"}

(***************************************************************************)
(* Particle (particle.py).  The values drawn at creation come from the     *)
(* random stream of the run: draw k of the run seeded with s.              *)
(***************************************************************************)
MaxSeed == 2
Seeds == 0..MaxSeed

NormalDraws  == <<100, 5, 120>>    \* np.random.normal(1.0, 0.2), percent
ExpDraws     == <<100, 20, 400>>   \* np.random.exponential(1.0), percent
UniformDraws == <<10, 90>>         \* random.random(), percent

Draws(s, k) ==
    [normal      |-> NormalDraws[((s + k) % 3) + 1],
     exponential |-> ExpDraws[((s + k) % 3) + 1],
     uniform     |-> UniformDraws[((s + k) % 2) + 1],
     place       |-> (s + k) % 2]

\* np.clip(v, lo, hi)
clip_None(v, lo, hi) == v
clip(v, lo, hi) == Max(lo, Min(v, hi))

Particle(x, y, state, d) ==
    [x |-> x, y |-> y,
     state |-> state,
     days_infected |-> 0,
     infection_count |-> 0,
     quarantined |-> FALSE,
     days_in_quarantine |-> 0,
     shows_symptoms |-> ~(state = "infected" /\ d.uniform < params.prob_no_symptoms),
     obeys_social_distance |-> d.uniform < params.social_distance_obedient,
     infection_susceptibility |-> Max(10, d.normal),
     recovery_time_modifier |-> clip(d.exponential, 50, 300),
     at_marketplace |-> FALSE,
     marketplace_timer |-> 0,
     home_x |-> x, home_y |-> y,
     traveling_to_marketplace |-> FALSE,
     returning_home |-> FALSE,
     target_x |-> x, target_y |-> y,
     traveling_between_communities |-> FALSE,
     target_community_id |-> -1,
     vaccinated |-> FALSE]

\* random.uniform(lo, hi) of a position: one of the two ends of the interval
uniform(lo, hi, which) == IF which = 0 THEN lo ELSE hi

(***************************************************************************)
(* EpidemicSimulation (simulation.py): construction and initialize().      *)
(***************************************************************************)
bounds == <<-100, 100, -100, 100>>

NoCommunities == [c \in {} |-> <<>>]
NoCounts == [emitted |-> FALSE, counts |-> [st \in {"susceptible", "infected", "removed", "dead"} |-> 0]]
NoPass == [kind |-> "construct", day_pass |-> FALSE, new_infections |-> 0,
           transitions |-> {}, moved |-> {}, died |-> {}, travelers |-> {},
           attending |-> {}, contacts |-> {}, gathering |-> FALSE,
           counts |-> NoCounts]
NoQuery == [x |-> 0, y |-> 0, radius |-> -1, result |-> <<>>]

\* the count without its floor of one
NumInfected_NoFloor(n, fraction) == int(n * fraction, 1000)

\* max(1, int(n * fraction_infected_init))
NumInfected(n, fraction) == Max(1, int(n * fraction, 1000))

_init_simple(s) ==
    LET n == params.num_particles
        num_infected == NumInfected(n, params.fraction_infected_init)
        new(i) == LET d == Draws(s, i)
                      x == uniform(bounds[1] + 15, bounds[2] - 15, d.place)
                      y == uniform(bounds[3] + 15, bounds[4] - 15, d.place)
                  IN  Particle(x, y,
                               IF i - 1 < num_infected THEN "infected"
                               ELSE "susceptible", d)
    IN  [attr |-> [i \in 1..n |-> new(i)],
         particles |-> [i \in 1..n |-> i],
         communities |-> NoCommunities,
         initial_population |-> n]

CommunityIds == 0..8
quarantine_comm_id == 0

\* bounds of community comm_id = i * 3 + j
CommunityBounds(comm_id) ==
    LET i == comm_id \div 3
        j == comm_id % 3
    IN  <<-300 + i * 220, -100 + i * 220, -300 + j * 220, -100 + j * 220>>

\* random.sample(range(9), num_to_infect); only membership is used.  The
\* samples drawn are the runs of num_to_infect ids that start at SampleStarts.
SampleStarts == {0, 4, 8}
InfectedCommunityChoices ==
    LET num_to_infect == Max(1, Min(params.communities_to_infect, 9))
    IN  {{(c + i) % 9 : i \in 0..(num_to_infect - 1)} : c \in SampleStarts}

_init_communities(s, infected_communities) ==
    LET npc == params.num_per_community
        skipped(c) == params.quarantine_enabled /\ c = quarantine_comm_id
        \* the number of agents created before community c is reached
        before(c) == npc * Cardinality({b \in CommunityIds : b < c /\ ~skipped(b)})
        total == npc * Cardinality({b \in CommunityIds : ~skipped(b)})
        commOf(id) == CHOOSE c \in CommunityIds :
                         ~skipped(c) /\ before(c) < id /\ id <= before(c) + npc
        num_infected(c) ==
            IF c \in infected_communities
            THEN NumInfected(npc, params.fraction_infected_init)
            ELSE 0
        new(id) == LET c == commOf(id)
                       k == id - before(c) - 1
                       b == CommunityBounds(c)
                       d == Draws(s, id)
                       x == uniform(b[1] + 10, b[2] - 10, d.place)
                       y == uniform(b[3] + 10, b[4] - 10, d.place)
                   IN  Particle(x, y,
                                IF k < num_infected(c) THEN "infected"
                                ELSE "susceptible", d)
    IN  [attr |-> [id \in 1..total |-> new(id)],
         particles |-> <<>>,
         communities |->
            [c \in CommunityIds |->
                [bounds |-> CommunityBounds(c),
                 particles |-> IF skipped(c) THEN <<>>
                               ELSE [k \in 1..npc |-> before(c) + k]]],
         initial_population |->
            IF params.quarantine_enabled THEN npc * 8 ELSE npc * 9]

\* the lists of the communities in dict order, one after the other
RECURSIVE CommunityParticles(_, _)
CommunityParticles(comms, c) ==
    IF c \notin DOMAIN comms THEN <<>>
    ELSE comms[c].particles \o CommunityParticles(comms, c + 1)

get_all_particles(m, parts, comms, quarantine) ==
    IF m = "communities"
    THEN CommunityParticles(comms, 0) \o quarantine
    ELSE parts \o quarantine

\* the counts emitted by _update_stats; nothing is emitted on the early return
Count(all_p, at, st) == Cardinality({i \in DOMAIN all_p : at[all_p[i]].state = st})
_update_stats_NoGuard(all_p, at, initial) ==
    [emitted |-> TRUE,
     counts |-> [st \in States |->
                   (IF st = "dead" THEN initial - Len(all_p) ELSE 0)
                   + Count(all_p, at, st)]]
_update_stats(all_p, at, initial) ==
    LET deaths == initial - Len(all_p)
    IN  IF initial = 0 THEN NoCounts
        ELSE [emitted |-> TRUE,
              counts |-> [st \in States |->
                            (IF st = "dead" THEN deaths ELSE 0)
                            + Count(all_p, at, st)]]


(***************************************************************************)
(* step().  A world w is the mutable part of the engine while a call runs: *)
(* [attr, particles, quarantine_particles, communities, spatial_grid,      *)
(* pass].  A method that draws random numbers is the set of the worlds it  *)
(* can leave.                                                              *)
(***************************************************************************)
World == [attr |-> attr, particles |-> particles,
          quarantine_particles |-> quarantine_particles,
          communities |-> communities, spatial_grid |-> spatial_grid,
          last_marketplace_day |-> last_marketplace_day, pass |-> pass]

\* f applied to every world of S, all results together
Bind(S, f(_)) == UNION {f(w) : w \in S}

\* clear(); for p in list: insert(p)
RECURSIVE InsertAll(_, _, _)
InsertAll(grid, list, at) ==
    IF list = <<>> THEN grid
    ELSE InsertAll(insert(grid, Head(list), at[Head(list)].x, at[Head(list)].y),
                   Tail(list), at)

\* distance_to(other) < r, on the squares
Within(a, b, r) ==
    r > 0 /\ (a.x - b.x) * (a.x - b.x) + (a.y - b.y) * (a.y - b.y) < r * r

\* the body of the inner loop of _check_infections once dist < infection_radius
Attempt(w, inf_p, sus_p) ==
    LET effective_prob == params.prob_infection * w.attr[sus_p].infection_susceptibility
        from == w.attr[sus_p].state
        hit(no_symptoms) ==
            [w EXCEPT !.attr[sus_p].state = "infected",
                      !.attr[sus_p].days_infected = 0,
                      !.attr[inf_p].infection_count = @ + 1,
                      !.attr[sus_p].shows_symptoms = IF no_symptoms THEN FALSE ELSE @,
                      !.pass.new_infections = @ + 1,
                      !.pass.transitions = @ \cup {<<sus_p, from, "infected">>},
                      !.pass.contacts = @ \cup {[inf_p |-> inf_p, sus_p |-> sus_p,
                                                 inf_at |-> <<w.attr[inf_p].x, w.attr[inf_p].y>>,
                                                 sus_at |-> <<w.attr[sus_p].x, w.attr[sus_p].y>>]}]
    IN  UNION {IF success
               THEN {hit(ns) : ns \in Bernoulli(params.prob_no_symptoms, 100)}
               ELSE {w} : success \in Bernoulli(effective_prob, 10000)}

RECURSIVE AttemptAll(_, _)
AttemptAll(w, attempts) ==
    IF attempts = <<>> THEN {w}
    ELSE Bind(Attempt(w, Head(attempts)[1], Head(attempts)[2]),
              LAMBDA v : AttemptAll(v, Tail(attempts)))

check_radius == 2

\* a selection that also takes the Removed agents
SusceptibleOf_NotInfected(w, particle_list) ==
    SelectSeq(particle_list, LAMBDA p : w.attr[p].state /= "infected")

\* a selection that takes the Susceptible agents of every list
SusceptibleOf_AnyList(w, particle_list) ==
    SelectSeq(get_all_particles(mode, w.particles, w.communities,
                                w.quarantine_particles),
              LAMBDA p : w.attr[p].state = "susceptible")

\* susceptible = [p for p in particle_list if p.state == 'susceptible']
SusceptibleOf(w, particle_list) ==
    SelectSeq(particle_list, LAMBDA p : w.attr[p].state = "susceptible")

_check_infections(w, particle_list) ==
    LET susceptible == SusceptibleOf(w, particle_list)
        grid == InsertAll(clear(w.spatial_grid), susceptible, w.attr)
        infected_particles == SelectSeq(particle_list,
                                        LAMBDA p : w.attr[p].state = "infected")
        pairs(inf_p) ==
            LET near == get_nearby(grid, w.attr[inf_p].x, w.attr[inf_p].y, check_radius)
                hits == SelectSeq(near, LAMBDA q : Within(w.attr[inf_p], w.attr[q],
                                                          params.infection_radius))
            IN  [k \in 1..Len(hits) |-> <<inf_p, hits[k]>>]
        attempts == Flatten([k \in 1..Len(infected_particles) |->
                                pairs(infected_particles[k])])
    IN  AttemptAll([w EXCEPT !.spatial_grid = grid], attempts)

\* an infection that is over at its first day pass, whatever its duration
Completed_FirstPass(a) == a.days_infected >= 1

\* an infection that never reaches its end
Completed_Never(a) == a.days_infected < 0

\* p.days_infected >= infection_duration * recovery_time_modifier
Completed(a) == a.days_infected * 100 >= params.infection_duration * a.recovery_time_modifier

\* the quarantine test without its symptom condition
QuarantineDue_NoSymptoms(a) ==
    /\ params.quarantine_enabled
    /\ a.days_infected >= params.quarantine_after
    /\ day_count >= params.start_quarantine
    /\ ~a.quarantined

\* a quarantine test that waits for one day more than quarantine_after
QuarantineDue_Late(a) ==
    /\ params.quarantine_enabled
    /\ a.days_infected > params.quarantine_after
    /\ day_count >= params.start_quarantine
    /\ a.shows_symptoms
    /\ ~a.quarantined

\* the quarantine test of _update_infections
QuarantineDue(a) ==
    /\ params.quarantine_enabled
    /\ a.days_infected >= params.quarantine_after
    /\ day_count >= params.start_quarantine
    /\ a.shows_symptoms
    /\ ~a.quarantined

\* one iteration of the loop of _update_infections; r = [w, to_quarantine, to_remove_dead]
UpdateOne(r, p) ==
    IF r.w.attr[p].state /= "infected" THEN {r}
    ELSE LET w1 == [r.w EXCEPT !.attr[p].days_infected = @ + 1]
             a  == w1.attr[p]
             to(st) == [w1 EXCEPT !.attr[p].state = st,
                                  !.pass.transitions = @ \cup {<<p, "infected", st>>}]
         IN  IF Completed(a)
             THEN {IF dies
                   THEN [r EXCEPT !.w = to("dead"),
                                  !.to_remove_dead = Append(@, p)]
                   ELSE [r EXCEPT !.w = to("removed")]
                   : dies \in Bernoulli(params.mortality_rate, 100)}
             ELSE IF QuarantineDue(a)
             THEN {[r EXCEPT !.w = w1, !.to_quarantine = Append(@, p)]}
             ELSE {[r EXCEPT !.w = w1]}

RECURSIVE UpdateAll(_, _)
UpdateAll(r, list) ==
    IF list = <<>> THEN {r}
    ELSE Bind(UpdateOne(r, Head(list)), LAMBDA v : UpdateAll(v, Tail(list)))

_update_infections(w, particle_list) ==
    UpdateAll([w |-> w, to_quarantine |-> <<>>, to_remove_dead |-> <<>>],
              particle_list)

\* the list named src: a community id, or one of the two names below
MainList == -1
QuarantineList == -2

ListOf(w, src) ==
    IF src = MainList THEN w.particles
    ELSE IF src = QuarantineList THEN w.quarantine_particles
    ELSE w.communities[src].particles

SetList(w, src, list) ==
    IF src = MainList THEN [w EXCEPT !.particles = list]
    ELSE IF src = QuarantineList THEN [w EXCEPT !.quarantine_particles = list]
    ELSE [w EXCEPT !.communities[src].particles = list]

\* the ends of the pocket random.uniform is drawn from (0: low, 1: high)
PocketDraws == {0}

\* the quarantine pocket the agent is put into
QuarantinePocket(m) ==
    IF m = "communities" THEN <<-290, -110, -290, -110>> ELSE <<-95, -60, -95, -60>>

\* a move that leaves the agent in the list it came from
_move_to_quarantine_NoRemove(w, p, src) ==
    {[w EXCEPT !.attr[p].quarantined = TRUE,
               !.quarantine_particles = Append(@, p),
               !.pass.moved = @ \cup {[p |-> p, from |-> src, day |-> day_count,
                                       state |-> w.attr[p].state,
                                       days_infected |-> w.attr[p].days_infected,
                                       shows_symptoms |-> w.attr[p].shows_symptoms,
                                       quarantined |-> w.attr[p].quarantined]}]}

_move_to_quarantine(w, p, src) ==
    LET b == QuarantinePocket(mode)
        snap == [p |-> p, from |-> src, day |-> day_count,
                 state |-> w.attr[p].state,
                 days_infected |-> w.attr[p].days_infected,
                 shows_symptoms |-> w.attr[p].shows_symptoms,
                 quarantined |-> w.attr[p].quarantined]
        moved(which) ==
            LET w1 == [w EXCEPT !.attr[p].quarantined = TRUE,
                                !.attr[p].obeys_social_distance = FALSE,
                                !.attr[p].x = uniform(b[1], b[2], which),
                                !.attr[p].y = uniform(b[3], b[4], which),
                                !.pass.moved = @ \cup {snap}]
                w2 == SetList(w1, src, remove(ListOf(w1, src), p))
            IN  [w2 EXCEPT !.quarantine_particles = Append(@, p)]
    IN  {moved(which) : which \in PocketDraws}

RECURSIVE MoveAll(_, _, _)
MoveAll(w, to_q, src) ==
    IF to_q = <<>> THEN {w}
    ELSE Bind(_move_to_quarantine(w, Head(to_q), src),
              LAMBDA v : MoveAll(v, Tail(to_q), src))

\* a pass that keeps its dead in the list
RemoveDead_Keep(w, src, to_dead) == [w EXCEPT !.pass.died = @ \cup Range(to_dead)]

\* [p for p in list if p not in to_dead_set]
RemoveDead(w, src, to_dead) ==
    IF to_dead = <<>> THEN w
    ELSE LET w1 == SetList(w, src, SelectSeq(ListOf(w, src),
                                             LAMBDA p : p \notin Range(to_dead)))
         IN  [w1 EXCEPT !.pass.died = @ \cup Range(to_dead)]

\* the day pass over one zone: infections, recovery, quarantine moves, deaths
ZonePass(w, src) ==
    Bind(_check_infections(w, ListOf(w, src)), LAMBDA w1 :
    Bind(_update_infections(w1, ListOf(w1, src)), LAMBDA r :
    Bind(MoveAll(r.w, r.to_quarantine, src), LAMBDA w2 :
         {RemoveDead(w2, src, r.to_remove_dead)})))

\* the day pass over the quarantine pool; its to_quarantine is dropped
QuarantinePass(w) ==
    IF w.quarantine_particles = <<>> THEN {w}
    ELSE Bind(_check_infections(w, w.quarantine_particles), LAMBDA w1 :
         Bind(_update_infections(w1, w1.quarantine_particles), LAMBDA r :
              {RemoveDead(r.w, QuarantineList, r.to_remove_dead)}))


\* the subsets of S with at most k elements
RECURSIVE UpTo(_, _)
UpTo(S, k) ==
    IF k = 0 THEN {{}}
    ELSE LET T == UpTo(S, k - 1)
         IN  T \cup {t \cup {x} : t \in T, x \in S}

\* Draws of _handle_community_travel: the communities in which the travel
\* roll succeeds, and the communities random.choice(other_comms) returns
TravelSources == {1, 4}
TravelTargets == {0, 4, 8}

\* the loop body of _handle_community_travel for one selected agent
TravelOne(w, p, comm_id) ==
    LET other_comms == CommunityIds \ {comm_id}
        targets == other_comms \cap TravelTargets
        go(target_comm_id, which) ==
            LET tb == w.communities[target_comm_id].bounds
                w1 == [w EXCEPT
                         !.attr[p].target_x = uniform(tb[1] + 10, tb[2] - 10, which),
                         !.attr[p].target_y = uniform(tb[3] + 10, tb[4] - 10, which),
                         !.attr[p].traveling_between_communities = TRUE,
                         !.attr[p].target_community_id = target_comm_id,
                         !.pass.travelers = @ \cup {<<p, comm_id, target_comm_id>>}]
                w2 == [w1 EXCEPT !.communities[comm_id].particles = remove(@, p)]
            IN  [w2 EXCEPT !.communities[target_comm_id].particles = Append(@, p)]
    IN  {go(t, 0) : t \in targets}

RECURSIVE TravelAll(_, _, _)
TravelAll(w, to_travel, comm_id) ==
    IF to_travel = <<>> THEN {w}
    ELSE Bind(TravelOne(w, Head(to_travel), comm_id),
              LAMBDA v : TravelAll(v, Tail(to_travel), comm_id))

\* the outer loop of _handle_community_travel from community c on; at most
\* budget agents are selected in all
RECURSIVE TravelFrom(_, _, _)
TravelFrom(w, c, budget) ==
    IF c \notin DOMAIN w.communities THEN {w}
    ELSE LET list == w.communities[c].particles
             eligible == {p \in Range(list) :
                             /\ c \in TravelSources
                             /\ ~w.attr[p].quarantined
                             /\ ~w.attr[p].traveling_between_communities}
             rolls == Bernoulli(params.travel_probability,
                                100 * params.time_steps_per_day)
             selections == {T \in UpTo(eligible, budget) :
                               /\ T /= {} => TRUE \in rolls
                               /\ T /= eligible => FALSE \in rolls}
         IN  UNION {Bind(TravelAll(w, SelectSeq(list, LAMBDA p : p \in T), c),
                         LAMBDA v : TravelFrom(v, c + 1, budget - Cardinality(T)))
                    : T \in selections}

_handle_community_travel(w) == TravelFrom(w, 0, MaxTravelers)

(***************************************************************************)
(* The marketplace.  A gathering selects at most MaxAttendees agents.      *)
(***************************************************************************)
\* the end of the interval the jitter of a target is drawn at
JitterDraws == {0}

\* self.communities[marketplace_community_id] of an engine that was never
\* initialized raises KeyError
NoMarketCommunity(w) ==
    mode = "communities" /\ params.marketplace_community_id \notin DOMAIN w.communities

_get_marketplace_location(w) ==
    IF mode = "communities"
    THEN LET b == w.communities[params.marketplace_community_id].bounds
         IN  <<(b[1] + b[2]) \div 2, (b[3] + b[4]) \div 2>>
    ELSE <<params.marketplace_x, params.marketplace_y>>

\* the agents a gathering rolls for
MarketEligible(a) ==
    ~a.quarantined /\ ~a.traveling_to_marketplace /\ ~a.at_marketplace

_start_marketplace_gathering(w, particle_list) ==
    LET w0 == [w EXCEPT !.last_marketplace_day = day_count,
                        !.pass.gathering = TRUE]
    IN  IF NoMarketCommunity(w) THEN {[w0 EXCEPT !.pass.kind = "KeyError"]}
        ELSE
        LET market == _get_marketplace_location(w)
            eligible == {p \in Range(particle_list) : MarketEligible(w.attr[p])}
            rolls == Bernoulli(params.marketplace_attendance, 100)
            selections == {T \in UpTo(eligible, MaxAttendees) :
                              /\ T /= {} => TRUE \in rolls
                              /\ T /= eligible => FALSE \in rolls}
            go(a, which) ==
                [a EXCEPT !.traveling_to_marketplace = TRUE,
                          !.marketplace_timer = params.marketplace_duration,
                          !.home_x = a.x,
                          !.home_y = a.y,
                          !.target_x = market[1] + uniform(-15, 15, which),
                          !.target_y = market[2] + uniform(-15, 15, which)]
        IN  {[w0 EXCEPT !.attr = [p \in DOMAIN w.attr |->
                                    IF p \in T THEN go(w.attr[p], which)
                                    ELSE w.attr[p]],
                        !.pass.attending = T]
             : T \in selections, which \in JitterDraws}

_update_marketplace_timers(w, particle_list) ==
    LET tick(a, which) ==
            IF ~a.at_marketplace THEN a
            ELSE IF a.marketplace_timer - 1 > 0
            THEN [a EXCEPT !.marketplace_timer = @ - 1]
            ELSE [a EXCEPT !.marketplace_timer = @ - 1,
                           !.at_marketplace = FALSE,
                           !.returning_home = TRUE,
                           !.target_x = a.home_x + uniform(-10, 10, which),
                           !.target_y = a.home_y + uniform(-10, 10, which)]
    IN  {[w EXCEPT !.attr = [p \in DOMAIN w.attr |->
                                IF p \in Range(particle_list) THEN tick(w.attr[p], which)
                                ELSE w.attr[p]]]
         : which \in JitterDraws}

\* a handler that does not look at marketplace_enabled
_handle_marketplace_Always(w, particle_list) ==
    Bind(_start_marketplace_gathering(w, particle_list),
         LAMBDA v : IF v.pass.kind = "KeyError" THEN {v}
                    ELSE _update_marketplace_timers(v, particle_list))

\* a handler that waits for more than marketplace_interval days
_handle_marketplace_Strict(w, particle_list) ==
    IF ~params.marketplace_enabled THEN {w}
    ELSE LET days_since_last == day_count - w.last_marketplace_day
             started == IF days_since_last > params.marketplace_interval
                        THEN _start_marketplace_gathering(w, particle_list)
                        ELSE {w}
         IN  Bind(started,
                  LAMBDA v : IF v.pass.kind = "KeyError" THEN {v}
                             ELSE _update_marketplace_timers(v, particle_list))

_handle_marketplace(w, particle_list) ==
    IF ~params.marketplace_enabled THEN {w}
    ELSE LET days_since_last == day_count - w.last_marketplace_day
             started == IF days_since_last >= params.marketplace_interval
                        THEN _start_marketplace_gathering(w, particle_list)
                        ELSE {w}
         IN  Bind(started,
                  LAMBDA v : IF v.pass.kind = "KeyError" THEN {v}
                             ELSE _update_marketplace_timers(v, particle_list))

\* the arrival tests of _update_marketplace_movement
_update_marketplace_movement(a) ==
    LET target == [x |-> a.target_x, y |-> a.target_y]
    IN  IF a.traveling_to_marketplace
        THEN (IF Within(a, target, 5)
              THEN [a EXCEPT !.traveling_to_marketplace = FALSE,
                             !.at_marketplace = TRUE]
              ELSE a)
        ELSE IF a.returning_home /\ Within(a, target, 5)
        THEN [a EXCEPT !.returning_home = FALSE]
        ELSE a

(***************************************************************************)
(* The physics of a tick.  Velocities and forces are not modelled: a tick  *)
(* leaves an agent where it is or, for at most MaxMovers agents, takes it  *)
(* to another point it may occupy; _clamp_to_bounds is then applied.       *)
(***************************************************************************)
margin == 5

Clamp1(v, lo, hi) ==
    IF v < lo + margin THEN lo + margin
    ELSE IF v > hi - margin THEN hi - margin ELSE v

_clamp_to_bounds(a, b) ==
    [a EXCEPT !.x = Clamp1(a.x, b[1], b[2]), !.y = Clamp1(a.y, b[3], b[4])]

Traveling(a) ==
    a.traveling_to_marketplace \/ a.returning_home \/ a.traveling_between_communities

\* the points of a zone an agent is taken to
SamplePoints(b) == {<<b[1] + 15, b[3] + 15>>, <<b[2] - 15, b[4] - 15>>}

_update_particle_physics(a, b, to) ==
    LET a0 == _update_marketplace_movement(a)
    IN  IF Traveling(a0)
        THEN LET a1 == _clamp_to_bounds([a0 EXCEPT !.x = to[1], !.y = to[2]], bounds)
                 arrived == /\ a1.traveling_between_communities
                            /\ Within(a1, [x |-> a1.target_x, y |-> a1.target_y], 10)
             IN  IF arrived THEN [a1 EXCEPT !.traveling_between_communities = FALSE]
                 ELSE a1
        ELSE _clamp_to_bounds([a0 EXCEPT !.x = to[1], !.y = to[2]], b)

\* where a tick can take the agent, besides leaving it in place
MoveOptions(a, b) ==
    (IF Traveling(_update_marketplace_movement(a))
     THEN {<<a.target_x, a.target_y>>}
     ELSE SamplePoints(b))
    \ {<<a.x, a.y>>}

\* the list that holds p, in the order step() walks the lists
ListHolding(w, p) ==
    IF p \in Range(w.particles) THEN MainList
    ELSE IF \E c \in DOMAIN w.communities : p \in Range(w.communities[c].particles)
    THEN CHOOSE c \in DOMAIN w.communities :
             /\ p \in Range(w.communities[c].particles)
             /\ \A b \in DOMAIN w.communities :
                   p \in Range(w.communities[b].particles) => c <= b
    ELSE QuarantineList

\* the bounds the physics of step() passes for the agents of each list
ZoneBounds(w, p) ==
    LET src == ListHolding(w, p)
    IN  IF src = QuarantineList THEN QuarantinePocket(mode)
        ELSE IF src = MainList THEN bounds
        ELSE w.communities[src].bounds

\* the list whose agents the grid holds when the physics part of step() ends
LastPhysicsList(w) ==
    IF w.quarantine_particles /= <<>> THEN w.quarantine_particles
    ELSE IF mode = "communities"
         THEN (IF 8 \in DOMAIN w.communities THEN w.communities[8].particles
               ELSE <<>>)
         ELSE w.particles

\* for every mover, the point it is taken to
MoveChoices(w, M) ==
    LET opts(p) == MoveOptions(w.attr[p], ZoneBounds(w, p))
    IN  {f \in [M -> UNION {opts(p) : p \in M}] : \A p \in M : f[p] \in opts(p)}

Physics(w) ==
    LET all == Range(get_all_particles(mode, w.particles, w.communities,
                                       w.quarantine_particles))
        rebuilt == \/ mode /= "communities"
                   \/ w.communities /= NoCommunities
                   \/ w.quarantine_particles /= <<>>
        grid == IF rebuilt
                THEN InsertAll(clear(w.spatial_grid), LastPhysicsList(w), w.attr)
                ELSE w.spatial_grid
        after(M, f) ==
            [w EXCEPT !.spatial_grid = grid,
                      !.attr = [p \in DOMAIN w.attr |->
                                  IF p \notin all THEN w.attr[p]
                                  ELSE _update_particle_physics(
                                           w.attr[p], ZoneBounds(w, p),
                                           IF p \in M THEN f[p]
                                           ELSE <<w.attr[p].x, w.attr[p].y>>)]]
        \* the agents that share their list with another agent, and the
        \* agents on their way to or from the marketplace
        together == {p \in all : \/ Len(ListOf(w, ListHolding(w, p))) > 1
                                 \/ w.attr[p].traveling_to_marketplace
                                 \/ w.attr[p].returning_home}
    IN  UNION {{after(M, f) : f \in MoveChoices(w, M)}
               : M \in UpTo(together, MaxMovers)}

\* the day-boundary part of step(), up to _update_stats
RECURSIVE CommunitiesPass(_, _)
CommunitiesPass(w, c) ==
    IF c \notin DOMAIN w.communities THEN {w}
    ELSE Bind(ZonePass(w, c), LAMBDA v : CommunitiesPass(v, c + 1))

TravelGate(w) ==
    UNION {IF gate THEN _handle_community_travel(w) ELSE {w}
           : gate \in Bernoulli(30, 100)}

DayPass(w) ==
    IF mode = "communities"
    THEN Bind(CommunitiesPass(w, 0), LAMBDA w1 :
         Bind(QuarantinePass(w1), LAMBDA w2 :
         Bind(TravelGate(w2), LAMBDA w3 :
              IF params.marketplace_enabled
              THEN _handle_marketplace(w3, CommunityParticles(w3.communities, 0))
              ELSE {w3})))
    ELSE Bind(ZonePass(w, MainList), LAMBDA w1 :
         Bind(QuarantinePass(w1), LAMBDA w2 :
              _handle_marketplace(w2, w2.particles)))

\* the test that opens the day pass, on the tick count before its increment
IsDayBoundary_Shifted(t) == (t + 1) % params.time_steps_per_day = 0
IsDayBoundary(t) == t % params.time_steps_per_day = 0

\* one call of step()
StepCall ==
    /\ LET is_day == IsDayBoundary(time_count)
           w0 == [World EXCEPT !.pass = [NoPass EXCEPT !.kind = "step",
                                                       !.day_pass = is_day]]
           ends == IF is_day THEN Bind(Physics(w0), DayPass) ELSE Physics(w0)
       IN  \E w \in ends :
             LET all_p == get_all_particles(mode, w.particles, w.communities,
                                            w.quarantine_particles)
                 counts == IF is_day
                           THEN _update_stats(all_p, w.attr, initial_population)
                           ELSE NoCounts
                 \* an exception leaves step() before _update_stats
                 raised == w.pass.kind /= "step"
             IN  /\ attr' = w.attr
                 /\ particles' = w.particles
                 /\ quarantine_particles' = w.quarantine_particles
                 /\ communities' = w.communities
                 /\ spatial_grid' = w.spatial_grid
                 /\ last_marketplace_day' = w.last_marketplace_day
                 /\ pass' = IF raised THEN w.pass ELSE [w.pass EXCEPT !.counts = counts]
                 /\ stats_day' = IF raised \/ ~counts.emitted THEN stats_day
                                 ELSE Append(stats_day, day_count)
                 /\ day_count' = IF is_day /\ ~raised THEN day_count + 1 ELSE day_count
                 /\ time_count' = IF raised THEN time_count ELSE time_count + 1
    /\ UNCHANGED <<mode, params, initial_population, nearby, time_step>>

step ==
    /\ time_count < MaxTicks
    /\ StepCall

\* initialize() with the values _init_simple or _init_communities built
Initialized_KeepQuarantine(r) ==
    LET all_p == get_all_particles(mode, r.particles, r.communities, <<>>)
        counts == _update_stats(all_p, r.attr, r.initial_population)
    IN  /\ attr' = r.attr
        /\ particles' = r.particles
        /\ communities' = r.communities
        /\ time_count' = 0
        /\ day_count' = 0
        /\ initial_population' = r.initial_population
        /\ stats_day' = IF ~counts.emitted THEN <<0>> ELSE <<0, 0>>
        /\ last_marketplace_day' = -params.marketplace_interval
        /\ pass' = [NoPass EXCEPT !.kind = "initialize", !.counts = counts]
        /\ UNCHANGED <<mode, params, spatial_grid, nearby, quarantine_particles, time_step>>
Initialized(r) ==
    LET all_p == get_all_particles(mode, r.particles, r.communities, <<>>)
        counts == _update_stats(all_p, r.attr, r.initial_population)
    IN  /\ attr' = r.attr
        /\ particles' = r.particles
        /\ quarantine_particles' = <<>>
        /\ communities' = r.communities
        /\ time_count' = 0
        /\ day_count' = 0
        /\ initial_population' = r.initial_population
        /\ stats_day' = IF ~counts.emitted THEN <<0>> ELSE <<0, 0>>
        /\ last_marketplace_day' = -params.marketplace_interval
        /\ pass' = [NoPass EXCEPT !.kind = "initialize", !.counts = counts]
        /\ UNCHANGED <<mode, params, spatial_grid, nearby, time_step>>

initialize ==
    /\ time_count < MaxTicks
    /\ \E s \in Seeds :
          IF mode = "communities"
          THEN \E infected_communities \in InfectedCommunityChoices :
                   Initialized(_init_communities(s, infected_communities))
          ELSE Initialized(_init_simple(s))

\* the caller sets fields of the bundle between two calls
set_params ==
    /\ time_count < MaxTicks
    /\ \/ params' = [params EXCEPT !.quarantine_enabled = ~@]
       \/ \E m \in MortalityRates \ {params.mortality_rate} :
             params' = [params EXCEPT !.mortality_rate = m]
    /\ UNCHANGED <<mode, attr, particles, quarantine_particles, communities,
                   spatial_grid, time_count, day_count, initial_population,
                   stats_day, last_marketplace_day, pass, nearby, time_step>>

\* EpidemicSimulation(mode), with the bundle as the caller has set it
Init ==
    /\ mode \in Modes
    /\ params \in ParamSpace(mode)
    /\ attr = <<>>
    /\ particles = <<>>
    /\ quarantine_particles = <<>>
    /\ communities = NoCommunities
    /\ spatial_grid = EmptyGrid
    /\ time_count = 0
    /\ day_count = 0
    /\ initial_population = 0
    /\ stats_day = <<0>>
    /\ last_marketplace_day = -params.marketplace_interval
    /\ pass = NoPass
    /\ nearby = NoQuery
    /\ time_step = TimeStepOf(params.time_steps_per_day)

Next == initialize \/ step \/ set_params

Spec == Init /\ [][Next]_vars

(***************************************************************************)
(* Properties of the engine, checked under Spec.                           *)
(***************************************************************************)
\* every list of the engine, one after the other
AllLists(parts, comms, quarantine) ==
    parts \o CommunityParticles(comms, 0) \o quarantine
Held == AllLists(particles, communities, quarantine_particles)
HeldCount(list, a) == Cardinality({i \in DOMAIN list : list[i] = a})
IsStep == time_count' = time_count + 1
Infected(a) == attr[a].state = "infected"

\* C1: whenever statistics are emitted (by initialize() and by every day
\* pass), susceptible + infected + removed + dead equals initial_population,
\* the first three counted over the agents of all lists and dead being
\* initial_population minus the number of agents held.
C1_PopulationConservation ==
    pass.counts.emitted =>
        LET c == pass.counts.counts
        IN  /\ c["susceptible"] + c["infected"] + c["removed"] + c["dead"]
                  = initial_population
            /\ \A st \in {"susceptible", "infected", "removed"} :
                  c[st] = Cardinality({i \in DOMAIN Held : attr[Held[i]].state = st})
            /\ c["dead"] = initial_population - Len(Held)

C1_Witness ==
    /\ pass.kind = "step"
    /\ pass.counts.emitted
    /\ pass.counts.counts["dead"] > 0
    /\ pass.counts.counts["infected"] > 0
    /\ quarantine_particles /= <<>>
    /\ mode = "communities"

\* C2: after initialize() and after every step(), every live agent is held by
\* exactly one list and occurs in it exactly once.
C2_ExactlyOneCollection ==
    \A a \in DOMAIN attr :
        attr[a].state /= "dead" => HeldCount(Held, a) = 1

C2_Witness ==
    /\ pass.kind = "step"
    /\ pass.travelers /= {}
    /\ \E m \in pass.moved : HeldCount(quarantine_particles, m.p) = 1
    /\ \E t \in pass.travelers : HeldCount(communities[t[3]].particles, t[1]) = 1

\* C3: in every step(), a Removed agent stays Removed, an agent that no list
\* holds (it died) is held by no list afterwards, and every agent the pass set
\* to Infected was Susceptible when the step began.
C3_MonotonicStates ==
    [][IsStep =>
        /\ \A a \in DOMAIN attr :
              /\ attr[a].state = "removed" => attr'[a].state = "removed"
              /\ HeldCount(Held, a) = 0 => HeldCount(Held', a) = 0
              /\ (attr'[a].state = "infected" /\ attr[a].state /= "infected")
                     => attr[a].state = "susceptible"
        /\ \A t \in pass'.transitions :
              t[3] = "infected" => attr[t[1]].state = "susceptible"]_vars

C3_Witness ==
    /\ pass.kind = "step"
    /\ \E t \in pass.transitions : t[2] = "susceptible" /\ t[3] = "infected"
    /\ \E a \in DOMAIN attr : attr[a].state = "removed" /\ HeldCount(Held, a) = 1
    /\ \E a \in DOMAIN attr : attr[a].state = "dead" /\ HeldCount(Held, a) = 0

\* C4: an agent is moved into the quarantine pool by a step only when, at that
\* pass, quarantine is enabled, the agent is Infected, shows symptoms, is not
\* yet quarantined, has days_infected >= quarantine_after and the day has
\* reached start_quarantine; an agent enters the pool only by such a move.
C4_QuarantineGating ==
    [][IsStep =>
        /\ \A m \in pass'.moved :
              /\ params.quarantine_enabled
              /\ m.state = "infected"
              /\ m.shows_symptoms
              /\ ~m.quarantined
              /\ m.days_infected >= params.quarantine_after
              /\ m.day = day_count
              /\ day_count >= params.start_quarantine
        /\ \A a \in Range(quarantine_particles') \ Range(quarantine_particles) :
              \E m \in pass'.moved : m.p = a]_vars

C4_Witness ==
    /\ pass.kind = "step"
    /\ pass.moved /= {}
    /\ \E a \in DOMAIN attr :
          /\ Infected(a)
          /\ ~attr[a].shows_symptoms
          /\ attr[a].days_infected >= params.quarantine_after
          /\ HeldCount(quarantine_particles, a) = 0
          /\ HeldCount(Held, a) = 1

\* the population the bundle configures for the mode
ConfiguredPopulation ==
    IF mode = "communities" THEN params.num_per_community ELSE params.num_particles

\* C5: after initialize() with fraction_infected_init > 0 and a positive
\* configured population, at least one agent is Infected.
C5_SeedInfection ==
    (/\ pass.kind = "initialize"
     /\ params.fraction_infected_init > 0
     /\ ConfiguredPopulation > 0)
        => \E a \in Range(Held) : Infected(a)

\* the number of agents of a list in state st
InState(list, st) == Cardinality({a \in Range(list) : attr[a].state = st})

C10_CertainDeath ==
    [][(IsStep /\ pass'.day_pass /\ params.mortality_rate = 100) =>
        /\ \A t \in pass'.transitions :
              /\ t[3] /= "removed"
              /\ t[3] = "dead" => HeldCount(Held', t[1]) = 0
        /\ \A a \in DOMAIN attr' :
              /\ attr'[a].state = "removed" => attr[a].state = "removed"
              /\ (attr'[a].state = "infected" /\ HeldCount(Held', a) > 0)
                    => attr'[a].days_infected * 100
                          < params.infection_duration * attr'[a].recovery_time_modifier]_vars

C10_Witness ==
    /\ pass.kind = "step"
    /\ params.mortality_rate = 100
    /\ pass.died /= {}
    /\ \E a \in Range(Held) : Infected(a)
    /\ \A a \in DOMAIN attr : attr[a].state /= "removed"

(***************************************************************************)
(* The engine with the marketplace switched on or off by the caller        *)
(* before the run, and the communities isolated or not.                    *)
(***************************************************************************)
MarketParams(m) ==
    {[BaseParams EXCEPT !.marketplace_enabled = e,
                        !.num_particles = IF z THEN 0 ELSE @,
                        !.num_per_community = IF z THEN 0 ELSE @]
       : e \in BOOLEAN, z \in BOOLEAN}
    \cup (IF m = "communities"
          THEN {[BaseParams EXCEPT !.travel_probability = 2]}
          ELSE {})

InitMarket ==
    /\ mode \in Modes
    /\ params \in MarketParams(mode)
    /\ attr = <<>>
    /\ particles = <<>>
    /\ quarantine_particles = <<>>
    /\ communities = NoCommunities
    /\ spatial_grid = EmptyGrid
    /\ time_count = 0
    /\ day_count = 0
    /\ initial_population = 0
    /\ stats_day = <<0>>
    /\ last_marketplace_day = -params.marketplace_interval
    /\ pass = NoPass
    /\ nearby = NoQuery
    /\ time_step = TimeStepOf(params.time_steps_per_day)

SpecMarket == InitMarket /\ [][Next]_vars

\* a step() that returned, and an initialize(): set_params changes params,
\* and a step() that raised keeps its exception in pass.kind
StepReturned == pass'.kind = "step" /\ params' = params
InitializeReturned == pass'.kind = "initialize" /\ params' = params

MarketIntent(a) ==
    a.traveling_to_marketplace \/ a.at_marketplace \/ a.returning_home

\* C11: in a run with marketplace_enabled = False, no agent ever has
\* traveling_to_marketplace, at_marketplace or returning_home set, and no
\* gathering is ever started.
C11_NoMarketIntent ==
    ~params.marketplace_enabled =>
        /\ \A a \in DOMAIN attr : ~MarketIntent(attr[a])
        /\ pass.attending = {}
        /\ last_marketplace_day = -params.marketplace_interval

C11_Witness ==
    /\ ~params.marketplace_enabled
    /\ pass.kind = "step"
    /\ time_count = MaxTicks
    /\ day_count = MaxTicks
    /\ mode = "simple"
    /\ Len(particles) > 1

\* C12: after initialize() and after every step(), every agent that
\* get_all_particles() returns is Susceptible, Infected or Removed; an agent
\* that died in a day pass is held by no list when the step ends.
C12_NoDeadHeld ==
    /\ \A a \in Range(Held) : attr[a].state \in {"susceptible", "infected", "removed"}
    /\ \A a \in pass.died : attr[a].state = "dead" /\ HeldCount(Held, a) = 0
    /\ Range(get_all_particles(mode, particles, communities, quarantine_particles))
          = Range(Held)

C12_Witness ==
    /\ pass.kind = "step"
    /\ pass.died /= {}
    /\ \E a \in Range(quarantine_particles) : attr[a].state = "infected"
    /\ \E a \in DOMAIN attr : attr[a].state = "dead" /\ attr[a].quarantined

\* C13: every step() adds one to the tick count; the day pass (infection,
\* recovery, statistics) runs exactly on the ticks whose count before the
\* increment is a multiple of time_steps_per_day, and adds one to the day
\* count; between two day passes no agent changes state or ages and no
\* statistics are emitted
C13_DayCadence ==
    /\ [](day_count = (time_count + params.time_steps_per_day - 1)
                          \div params.time_steps_per_day)
    /\ [][StepReturned =>
            LET boundary == time_count % params.time_steps_per_day = 0
            IN  /\ time_count' = time_count + 1
                /\ pass'.day_pass = boundary
                /\ day_count' = day_count + (IF boundary THEN 1 ELSE 0)
                /\ pass'.counts.emitted = (boundary /\ initial_population > 0)
                /\ stats_day' = IF boundary /\ initial_population > 0
                                THEN Append(stats_day, day_count)
                                ELSE stats_day
                /\ ~boundary =>
                      /\ pass'.new_infections = 0
                      /\ pass'.transitions = {}
                      /\ \A a \in DOMAIN attr :
                            /\ attr'[a].state = attr[a].state
                            /\ attr'[a].days_infected = attr[a].days_infected]_vars
C13_Witness ==
    /\ params.time_steps_per_day = 2
    /\ pass.kind = "step"
    /\ ~pass.day_pass
    /\ time_count = 2
    /\ day_count = 1
    /\ \E a \in Range(Held) : attr[a].state = "infected"

\* an engine on which initialize() has built the zones
EngineInitialized == mode = "communities" => communities /= NoCommunities

\* C14: with an initial population of zero, initialize() and every step()
\* after it return normally, no statistics are emitted and the day series
\* stays at its first entry
C14_ZeroPopulation ==
    /\ [](initial_population = 0 =>
            /\ ~pass.counts.emitted
            /\ stats_day = <<0>>
            /\ Held = <<>>)
    /\ [][(initial_population = 0 /\ EngineInitialized /\ params' = params)
            => \/ pass'.kind = "initialize" /\ time_count' = 0
               \/ pass'.kind = "step" /\ time_count' = time_count + 1]_vars
C14_Witness ==
    /\ initial_population = 0
    /\ mode = "communities"
    /\ communities /= NoCommunities
    /\ params.marketplace_enabled
    /\ pass.kind = "step"
    /\ time_count = MaxTicks

\* the agents initialize() is configured to create: num_particles, or
\* num_per_community in each community that is not the quarantine zone
ConfiguredTotal ==
    IF mode = "communities"
    THEN params.num_per_community
           * Cardinality({c \in CommunityIds :
                            ~(params.quarantine_enabled /\ c = quarantine_comm_id)})
    ELSE params.num_particles

\* an agent as Particle() leaves it, at the place it was created
Fresh(a) ==
    /\ a.state \in {"susceptible", "infected"}
    /\ a.days_infected = 0
    /\ a.infection_count = 0
    /\ ~a.quarantined
    /\ a.days_in_quarantine = 0
    /\ ~a.at_marketplace
    /\ a.marketplace_timer = 0
    /\ ~a.traveling_to_marketplace
    /\ ~a.returning_home
    /\ ~a.traveling_between_communities
    /\ a.target_community_id = -1
    /\ a.home_x = a.x /\ a.home_y = a.y
    /\ a.target_x = a.x /\ a.target_y = a.y
    /\ ~a.vaccinated

\* C15: initialize(), also after steps, leaves the clock at zero, the
\* quarantine pool empty, the day series and the marketplace schedule as
\* after the first initialize(), and in the zones only agents as Particle()
\* creates them, as many as are configured
C15_InitializeResets ==
    [][InitializeReturned =>
         /\ time_count' = 0
         /\ day_count' = 0
         /\ quarantine_particles' = <<>>
         /\ last_marketplace_day' = -params.marketplace_interval
         /\ stats_day' = IF ConfiguredTotal = 0 THEN <<0>> ELSE <<0, 0>>
         /\ initial_population' = ConfiguredTotal
         /\ Len(Held') = ConfiguredTotal
         /\ NoDup(Held')
         /\ Range(Held') = DOMAIN attr'
         /\ \A a \in DOMAIN attr' : Fresh(attr'[a])
         /\ mode = "simple" => communities' = NoCommunities
         /\ mode = "communities" => particles' = <<>>]_vars
C15_Witness ==
    /\ pass.kind = "initialize"
    /\ spatial_grid /= EmptyGrid
    /\ Held /= <<>>
    /\ params.marketplace_enabled

\* C16: an agent leaves the quarantine pool once it has been held for
\* quarantine_duration days, or, with quarantine_duration = 0, once it has
\* recovered.  An agent that is in the pool when a day pass begins was put
\* there by an earlier day pass: by the end of this one it has been held for
\* one day at least.
C16_QuarantineEnds ==
    [][(StepReturned /\ pass'.day_pass) =>
          \A a \in Range(quarantine_particles) :
             (\/ params.quarantine_duration = 1
              \/ params.quarantine_duration = 0 /\ attr[a].state = "removed")
             => a \notin Range(quarantine_particles')]_vars

\* the day the test configures vaccination to start on, scaled to the run
vaccination_start_day == 1

\* C17: once the configured start day has passed, at least one live agent
\* is vaccinated
C17_SomeoneVaccinated ==
    (/\ pass.kind = "step"
     /\ day_count > vaccination_start_day
     /\ Held /= <<>>)
    => \E a \in Range(Held) : attr[a].vaccinated

\* the community c holds an Infected agent
HoldsInfected(comms, at, c) ==
    \E a \in Range(comms[c].particles) : at[a].state = "infected"

C19_NoSeedAtZero ==
    (pass.kind = "initialize" /\ params.fraction_infected_init = 0)
    => \A a \in Range(Held) : attr[a].state = "susceptible"

\* C20: infection_susceptibility is at least 0.1 and recovery_time_modifier
\* lies in [0.5, 3.0] for every agent in every state, and no call other
\* than initialize(), which creates new agents, changes either of them
C20_FixedModifiers ==
    /\ [](\A a \in DOMAIN attr :
             /\ attr[a].infection_susceptibility >= 10
             /\ attr[a].recovery_time_modifier >= 50
             /\ attr[a].recovery_time_modifier <= 300)
    /\ [][pass'.kind /= "initialize" =>
             /\ DOMAIN attr' = DOMAIN attr
             /\ \A a \in DOMAIN attr :
                   /\ attr'[a].infection_susceptibility
                         = attr[a].infection_susceptibility
                   /\ attr'[a].recovery_time_modifier
                         = attr[a].recovery_time_modifier]_vars
C20_Witness ==
    /\ pass.kind = "step"
    /\ time_count = MaxTicks
    /\ params.marketplace_enabled
    /\ \E a \in DOMAIN attr :
          /\ attr[a].state = "removed"
          /\ attr[a].recovery_time_modifier = 50
          /\ attr[a].infection_susceptibility = 10
    /\ \E a \in DOMAIN attr :
          /\ attr[a].traveling_to_marketplace
          /\ attr[a].recovery_time_modifier = 300

\* the agents a day pass turned from Susceptible to Infected
NewlyInfected == {t[1] : t \in {u \in pass.transitions :
                                   u[2] = "susceptible" /\ u[3] = "infected"}}

\* C22: in a day pass no attempt succeeds against an agent that is already
\* Infected, so the new infections the pass reports are as many as the
\* agents that changed from Susceptible to Infected
C22_NoSecondInfection ==
    pass.kind = "step" =>
        /\ \A t \in pass.transitions : ~(t[2] = "infected" /\ t[3] = "infected")
        /\ pass.new_infections = Cardinality(NewlyInfected)

\* C23: a step advances days_infected of every held agent that is Infected
\* when it begins by one if it is a day pass and by nothing otherwise, also
\* when the pass moves the agent to the quarantine pool
C23_OneDayPerDayPass ==
    [][StepReturned =>
          \A a \in Range(Held) :
             attr[a].state = "infected" =>
                attr'[a].days_infected
                   = attr[a].days_infected + (IF pass'.day_pass THEN 1 ELSE 0)]_vars

\* the point nearest to the target of a that a travelling agent can be at:
\* _update_particle_physics clamps every traveller to the overall bounds
NearestReach(a) ==
    _clamp_to_bounds([x |-> a.target_x, y |-> a.target_y], bounds)

\* C27: an agent selected for travel between communities comes within the
\* arrival threshold of its target; so its target is a point it can come
\* that near to
C27_TravelTargetReachable ==
    \A a \in Range(Held) :
       attr[a].traveling_between_communities =>
          Within(NearestReach(attr[a]),
                 [x |-> attr[a].target_x, y |-> attr[a].target_y], 10)

\* C29: with quarantine enabled community 0 gets no agent from initialize()
\* and, once empty, no agent from any step
C29_ReservedTile ==
    [][(/\ mode = "communities"
        /\ params.quarantine_enabled
        /\ params' = params
        /\ communities' /= NoCommunities
        /\ \/ pass'.kind = "initialize"
           \/ /\ communities /= NoCommunities
              /\ communities[quarantine_comm_id].particles = <<>>)
       => communities'[quarantine_comm_id].particles = <<>>]_vars

\* C30: an agent that a step turns from Susceptible to Infected was infected
\* in a day pass by an agent that was Infected and in the same list when the
\* step began, and nearer to it than infection_radius when the pass ran; no
\* agent of the quarantine pool is infected there or infects outside it
C30_SameListContact ==
    [][StepReturned =>
          /\ \A a \in DOMAIN attr :
                (attr[a].state = "susceptible" /\ attr'[a].state = "infected")
                => \E c \in pass'.contacts : c.sus_p = a
          /\ \A c \in pass'.contacts :
                /\ pass'.day_pass
                /\ attr[c.inf_p].state = "infected"
                /\ attr[c.sus_p].state = "susceptible"
                /\ HeldCount(Held, c.inf_p) = 1
                /\ HeldCount(Held, c.sus_p) = 1
                /\ ListHolding(World, c.inf_p) = ListHolding(World, c.sus_p)
                /\ ListHolding(World, c.sus_p) /= QuarantineList
                /\ Within([x |-> c.inf_at[1], y |-> c.inf_at[2]],
                          [x |-> c.sus_at[1], y |-> c.sus_at[2]],
                          params.infection_radius)]_vars
C30_Witness ==
    /\ pass.kind = "step"
    /\ pass.contacts /= {}
    /\ \E q \in Range(quarantine_particles), u \in Range(particles) :
          /\ attr[q].state = "infected"
          /\ attr[u].state = "susceptible"
          /\ Within(attr[q], attr[u], params.infection_radius)

\* the transitions of a out of Infected that the pass logged
EndsLogged(log, a) ==
    {t \in log.transitions : t[1] = a /\ t[2] = "infected" /\ t[3] \in {"removed", "dead"}}

ZoneHeld(ps, comms) == Range(ps) \cup Range(CommunityParticles(comms, 0))

\* the pass moved a out of its zone into the quarantine pool
MovedToPool(a) ==
    /\ \E m \in pass'.moved : m.p = a
    /\ attr'[a].quarantined
    /\ ~attr'[a].obeys_social_distance
    /\ a \notin ZoneHeld(particles', communities')
    /\ a \in Range(quarantine_particles') \/ attr'[a].state = "dead"

\* C32: in a day pass with quarantine enabled and day_count >=
\* start_quarantine, a symptomatic agent of a zone that is not quarantined,
\* is Infected past the recovery test of the pass and has days_infected >=
\* quarantine_after there, is moved to the quarantine pool by that pass.
\* For an agent Infected when the pass begins the value tested is its
\* days_infected plus one; for an agent infected in the pass it is the value
\* the pass leaves, unless the agent was moved.
C32_MovedWhenDue ==
    [][(/\ StepReturned /\ pass'.day_pass
        /\ params.quarantine_enabled
        /\ day_count >= params.start_quarantine) =>
          \A a \in ZoneHeld(particles, communities) :
             (/\ ~attr[a].quarantined
              /\ \/ /\ attr[a].state = "infected"
                    /\ attr[a].shows_symptoms
                    /\ attr[a].days_infected + 1 >= params.quarantine_after
                    /\ (attr[a].days_infected + 1) * 100
                          < params.infection_duration * attr[a].recovery_time_modifier
                 \/ /\ attr[a].state = "susceptible"
                    /\ attr'[a].state = "infected"
                    /\ attr'[a].shows_symptoms
                    /\ attr'[a].days_infected >= params.quarantine_after)
             => MovedToPool(a)]_vars

\* a day pass moved an agent that was Infected when it began, and the agent
\* is in the pool, still Infected
C32_Witness ==
    /\ pass.kind = "step"
    /\ \E m \in pass.moved :
          /\ <<m.p, "susceptible", "infected">> \notin pass.transitions
          /\ m.p \in Range(quarantine_particles)
          /\ attr[m.p].state = "infected"
          /\ attr[m.p].quarantined

\* the agent is inside the bounds of the quarantine pocket of the mode
InPocket(a) ==
    LET b == QuarantinePocket(mode)
    IN  b[1] <= a.x /\ a.x <= b[2] /\ b[3] <= a.y /\ a.y <= b[4]

\* C34: no agent held by the quarantine pool has a travel intent, and every
\* agent of the pool is inside the quarantine bounds
C34_PoolConfined ==
    \A a \in Range(quarantine_particles) :
       /\ ~attr[a].traveling_to_marketplace
       /\ ~attr[a].returning_home
       /\ ~attr[a].traveling_between_communities
       /\ InPocket(attr[a])

\* C38: after initialize() and after every step the values of stats['day']
\* are pairwise distinct, and the entry a day pass appended is the index of
\* the day it resolved: day_count before the pass advanced it
C38_DayIndexed ==
    pass.kind \in {"initialize", "step"} =>
        /\ NoDup(stats_day)
        /\ (pass.kind = "step" /\ pass.day_pass /\ pass.counts.emitted)
              => stats_day[Len(stats_day)] = day_count - 1

\* C39: after initialize() and after every step, an agent the engine holds
\* has quarantined = True exactly if the quarantine pool holds it, and an
\* agent of the pool does not obey social distancing and is Infected or
\* Removed.  (An agent that died is held by no list any more.)
C39_PoolMembers ==
    /\ \A a \in Range(Held) :
          attr[a].quarantined <=> a \in Range(quarantine_particles)
    /\ \A a \in Range(quarantine_particles) :
          /\ ~attr[a].obeys_social_distance
          /\ attr[a].state \in {"infected", "removed"}

\* the pool holds an Infected agent and a Removed one, while a zone holds
\* an agent that obeys social distancing
C39_Witness ==
    /\ pass.kind = "step"
    /\ \E a \in Range(quarantine_particles) : attr[a].state = "removed"
    /\ \E a \in Range(quarantine_particles) : attr[a].state = "infected"
    /\ \E a \in ZoneHeld(particles, communities) : attr[a].obeys_social_distance

(***************************************************************************)
(* A longer run of a small engine with the marketplace enabled: long       *)
(* enough for an agent to reach the marketplace, stay and start for home.  *)
(***************************************************************************)
JourneyParams(m) ==
    IF m = "communities"
    THEN {[BaseParams EXCEPT !.marketplace_enabled = TRUE]}
    ELSE {[BaseParams EXCEPT !.marketplace_enabled = TRUE,
                             !.num_particles = 1,
                             !.time_steps_per_day = t,
                             !.marketplace_duration = t] : t \in {1, 2}}

InitJourney ==
    /\ mode \in Modes
    /\ params \in JourneyParams(mode)
    /\ attr = <<>>
    /\ particles = <<>>
    /\ quarantine_particles = <<>>
    /\ communities = NoCommunities
    /\ spatial_grid = EmptyGrid
    /\ time_count = 0
    /\ day_count = 0
    /\ initial_population = 0
    /\ stats_day = <<0>>
    /\ last_marketplace_day = -params.marketplace_interval
    /\ pass = NoPass
    /\ nearby = NoQuery
    /\ time_step = TimeStepOf(params.time_steps_per_day)

journey_step ==
    /\ time_count < MaxJourneyTicks
    /\ EngineInitialized
    /\ StepCall

NextJourney == initialize \/ journey_step

SpecJourney == InitJourney /\ [][NextJourney]_vars

\* C24: every step decrements the timer of every agent that is at the
\* marketplace by one
C24_TimerPerTick ==
    [][StepReturned =>
          \A a \in Range(Held) :
             (attr[a].at_marketplace /\ ~attr'[a].quarantined)
             => attr'[a].marketplace_timer = attr[a].marketplace_timer - 1]_vars

\* C25: no agent holds two of the four travel intents at once
C25_OneIntent ==
    \A a \in DOMAIN attr :
       Cardinality({i \in 1..4 :
                      <<attr[a].traveling_to_marketplace,
                        attr[a].at_marketplace,
                        attr[a].returning_home,
                        attr[a].traveling_between_communities>>[i]}) <= 1

\* C28: an agent on its way home from the marketplace comes within the
\* arrival threshold of its target; so that target is a point it can come
\* that near to
C28_HomeReachable ==
    \A a \in Range(Held) :
       (/\ attr[a].returning_home
        /\ ~attr[a].traveling_to_marketplace
        /\ ~attr[a].quarantined)
       => Within(NearestReach(attr[a]),
                 [x |-> attr[a].target_x, y |-> attr[a].target_y], 5)

(***************************************************************************)
(* A longer run with an infection of one day: three day passes are enough  *)
(* for the slowest recovery, recovery_time_modifier = 3.0.                 *)
(***************************************************************************)
RecoveryParams(m) ==
    {[BaseParams EXCEPT !.infection_duration = 1,
                        !.num_particles = 2,
                        !.quarantine_enabled = q,
                        !.mortality_rate = r] : q \in BOOLEAN, r \in {0, 50}}

InitRecovery ==
    /\ mode \in Modes
    /\ params \in RecoveryParams(mode)
    /\ attr = <<>>
    /\ particles = <<>>
    /\ quarantine_particles = <<>>
    /\ communities = NoCommunities
    /\ spatial_grid = EmptyGrid
    /\ time_count = 0
    /\ day_count = 0
    /\ initial_population = 0
    /\ stats_day = <<0>>
    /\ last_marketplace_day = -params.marketplace_interval
    /\ pass = NoPass
    /\ nearby = NoQuery
    /\ time_step = TimeStepOf(params.time_steps_per_day)

SpecRecovery == InitRecovery /\ [][NextJourney]_vars

\* the largest value np.clip leaves in recovery_time_modifier
LongestModifier == 300

\* C33: with infection_duration constant, a day pass leaves no held agent
\* Infected with days_infected >= 3.0 * infection_duration, and it advances
\* days_infected of every agent that stays Infected by one at least; an agent
\* is infected with days_infected = 0, so it is Infected for at most
\* ceil(3.0 * infection_duration) day passes after that
C33_EndsWithinBound ==
    [][(StepReturned /\ pass'.day_pass) =>
          \A a \in Range(Held') :
             attr'[a].state = "infected" =>
                /\ attr'[a].recovery_time_modifier <= LongestModifier
                /\ attr'[a].days_infected * 100
                      < params.infection_duration * LongestModifier
                /\ (a \in Range(Held) /\ attr[a].state = "infected")
                      => attr'[a].days_infected >= attr[a].days_infected + 1]_vars

\* the slowest agent ends its infection in its third day pass, in a zone
\* and in the quarantine pool
C33_Witness ==
    /\ pass.kind = "step"
    /\ \E a \in DOMAIN attr :
          /\ EndsLogged(pass, a) /= {}
          /\ attr[a].recovery_time_modifier = LongestModifier
          /\ attr[a].days_infected = 3
          /\ time_count = 3

(***************************************************************************)
(* An engine whose caller changes time_steps_per_day between two calls.    *)
(***************************************************************************)
TimeStepParams(m) ==
    {[BaseParams EXCEPT !.time_steps_per_day = n] : n \in {1, 2}}

InitTimeStep ==
    /\ mode \in Modes
    /\ params \in TimeStepParams(mode)
    /\ attr = <<>>
    /\ particles = <<>>
    /\ quarantine_particles = <<>>
    /\ communities = NoCommunities
    /\ spatial_grid = EmptyGrid
    /\ time_count = 0
    /\ day_count = 0
    /\ initial_population = 0
    /\ stats_day = <<0>>
    /\ last_marketplace_day = -params.marketplace_interval
    /\ pass = NoPass
    /\ nearby = NoQuery
    /\ time_step = TimeStepOf(params.time_steps_per_day)

\* params.time_steps_per_day = n, by the caller
set_time_steps_per_day ==
    /\ time_count < MaxTicks
    /\ \E n \in {1, 2} \ {params.time_steps_per_day} :
          params' = [params EXCEPT !.time_steps_per_day = n]
    /\ UNCHANGED <<mode, attr, particles, quarantine_particles, communities,
                   spatial_grid, time_count, day_count, initial_population,
                   stats_day, last_marketplace_day, pass, nearby, time_step>>

NextTimeStep == initialize \/ step \/ set_time_steps_per_day

SpecTimeStep == InitTimeStep /\ [][NextTimeStep]_vars

\* C35: the time step the physics of a tick integrates with is
\* 1 / time_steps_per_day for the value the parameter has at that tick, and
\* initialize() leaves the engine with the time step of the current value
C35_FreshTimeStep ==
    [][/\ StepReturned => time_step = TimeStepOf(params.time_steps_per_day)
       /\ InitializeReturned => time_step' = TimeStepOf(params'.time_steps_per_day)]_vars

(***************************************************************************)
(* Runs of four days over the marketplace intervals 0, 1 and 2.            *)
(***************************************************************************)
GatheringParams(m) ==
    {[BaseParams EXCEPT !.marketplace_enabled = e,
                        !.marketplace_interval = i,
                        !.num_particles = 1,
                        !.num_per_community = IF e /\ i = 2 THEN 1 ELSE 0]
       : e \in BOOLEAN, i \in {0, 1, 2}}

InitGathering ==
    /\ mode \in Modes
    /\ params \in GatheringParams(mode)
    /\ attr = <<>>
    /\ particles = <<>>
    /\ quarantine_particles = <<>>
    /\ communities = NoCommunities
    /\ spatial_grid = EmptyGrid
    /\ time_count = 0
    /\ day_count = 0
    /\ initial_population = 0
    /\ stats_day = <<0>>
    /\ last_marketplace_day = -params.marketplace_interval
    /\ pass = NoPass
    /\ nearby = NoQuery
    /\ time_step = TimeStepOf(params.time_steps_per_day)

SpecGathering == InitGathering /\ [][NextJourney]_vars

\* C36: a day pass starts a gathering only if the marketplace is enabled and
\* day_count - last_marketplace_day >= marketplace_interval.  With the
\* marketplace enabled and the parameters constant, gatherings start at day 0
\* and then every max(1, marketplace_interval) days, attended or not: a start
\* sets last_marketplace_day to the day, and no other pass changes it.
C36_GatheringCadence ==
    [][(StepReturned /\ pass'.day_pass) =>
          /\ pass'.gathering =>
                /\ params.marketplace_enabled
                /\ day_count - last_marketplace_day >= params.marketplace_interval
                /\ last_marketplace_day' = day_count
          /\ ~pass'.gathering => last_marketplace_day' = last_marketplace_day
          /\ params.marketplace_enabled =>
                (pass'.gathering <=> day_count % Max(1, params.marketplace_interval) = 0)]_vars

\* the second gathering of a run with marketplace_interval = 2 starts at day
\* 2, with nobody attending
C36_Witness ==
    /\ pass.kind = "step"
    /\ pass.gathering
    /\ pass.attending = {}
    /\ params.marketplace_interval = 2
    /\ day_count = 3
    /\ last_marketplace_day = 2

(***************************************************************************)
(* Runs with a stay of two days at the marketplace: an agent that arrives  *)
(* on the third tick is still there when that tick ends.                   *)
(***************************************************************************)
MaxStayTicks == 3

StayParams(m) ==
    {[BaseParams EXCEPT !.marketplace_enabled = TRUE,
                        !.marketplace_duration = 2,
                        !.num_particles = 1]}

InitStay ==
    /\ mode \in Modes
    /\ params \in StayParams(mode)
    /\ attr = <<>>
    /\ particles = <<>>
    /\ quarantine_particles = <<>>
    /\ communities = NoCommunities
    /\ spatial_grid = EmptyGrid
    /\ time_count = 0
    /\ day_count = 0
    /\ initial_population = 0
    /\ stats_day = <<0>>
    /\ last_marketplace_day = -params.marketplace_interval
    /\ pass = NoPass
    /\ nearby = NoQuery
    /\ time_step = TimeStepOf(params.time_steps_per_day)

stay_step ==
    /\ time_count < MaxStayTicks
    /\ EngineInitialized
    /\ StepCall

NextStay == initialize \/ stay_step

SpecStay == InitStay /\ [][NextStay]_vars

\* the widest area that counts as the marketplace: in communities mode the
\* tile of the designated community, in simple mode the whole of the bounds
MarketArea ==
    IF mode = "communities"
    THEN communities[params.marketplace_community_id].bounds
    ELSE bounds

InBounds(a, b) == b[1] <= a.x /\ a.x <= b[2] /\ b[3] <= a.y /\ a.y <= b[4]

\* C37: an agent of a zone whose at_marketplace flag is set is in the
\* marketplace area, in communities mode whatever community holds it
C37_StaysAtMarket ==
    \A a \in ZoneHeld(particles, communities) :
       attr[a].at_marketplace => InBounds(attr[a], MarketArea)

(***************************************************************************)
(* The grid on its own: a caller that clears the grid, inserts the agents  *)
(* of a list one by one, in any order, and queries it.  The grid starts    *)
(* empty or with what an earlier pass left in it.                          *)
(***************************************************************************)
\* positions of the agents, and the points and radii of the queries
GridPoints == {<<-30, -10>>, <<-10, 10>>, <<10, 10>>, <<50, -50>>}
QueryPoints == {<<10, 10>>, <<-10, -10>>, <<-50, 50>>}
QueryRadii == 0..2

GridMembers(grid) == UNION {Range(grid[c]) : c \in DOMAIN grid}

InitGrid ==
    /\ mode = "simple"
    /\ params = BaseParams
    /\ \E n \in 1..MaxGridAgents :
          /\ particles = [k \in 1..n |-> k]
          /\ attr \in [1..n -> {Particle(pt[1], pt[2], "susceptible", Draws(0, 0)) :
                                   pt \in GridPoints}]
    /\ quarantine_particles = <<>>
    /\ communities = NoCommunities
    /\ spatial_grid \in {EmptyGrid, insert(EmptyGrid, 1, 90, 90)}
    /\ time_count = 0
    /\ day_count = 0
    /\ initial_population = 0
    /\ stats_day = <<0>>
    /\ last_marketplace_day = -params.marketplace_interval
    /\ pass = NoPass
    /\ nearby = NoQuery
    /\ time_step = TimeStepOf(params.time_steps_per_day)

grid_clear ==
    /\ spatial_grid' = clear(spatial_grid)
    /\ pass' = [pass EXCEPT !.kind = "clear"]
    /\ nearby' = NoQuery
    /\ UNCHANGED <<mode, params, attr, particles, quarantine_particles, communities,
                   time_count, day_count, initial_population, stats_day,
                   last_marketplace_day, time_step>>

grid_insert ==
    /\ pass.kind /= "construct"
    /\ \E p \in Range(particles) \ GridMembers(spatial_grid) :
          spatial_grid' = insert(spatial_grid, p, attr[p].x, attr[p].y)
    /\ pass' = [pass EXCEPT !.kind = "insert"]
    /\ nearby' = NoQuery
    /\ UNCHANGED <<mode, params, attr, particles, quarantine_particles, communities,
                   time_count, day_count, initial_population, stats_day,
                   last_marketplace_day, time_step>>

grid_get_nearby ==
    /\ pass.kind /= "construct"
    /\ \E q \in QueryPoints, radius \in QueryRadii :
          nearby' = [x |-> q[1], y |-> q[2], radius |-> radius,
                     result |-> get_nearby(spatial_grid, q[1], q[2], radius)]
    /\ pass' = [pass EXCEPT !.kind = "get_nearby"]
    /\ UNCHANGED <<mode, params, attr, particles, quarantine_particles, communities,
                   spatial_grid, time_count, day_count, initial_population, stats_day,
                   last_marketplace_day, time_step>>

NextGrid == grid_clear \/ grid_insert \/ grid_get_nearby

SpecGrid == InitGrid /\ [][NextGrid]_vars

\* every agent of the list has been inserted once since the last clear()
AllInserted ==
    /\ pass.kind /= "construct"
    /\ GridSize(spatial_grid) = Len(particles)
    /\ GridMembers(spatial_grid) = Range(particles)

\* C7: after clear() and one insert per agent, get_nearby at (x, y) with radius
\* r in {0, 1, 2} returns, without repetition, exactly the agents whose cell
\* lies in the (2r+1) by (2r+1) block around the cell of (x, y).
C7_QueryReturnsBlock ==
    (AllInserted /\ nearby.radius >= 0) =>
        LET c == _hash(nearby.x, nearby.y)
            InBlock(p) ==
                LET pc == _hash(attr[p].x, attr[p].y)
                IN  /\ Abs(pc[1] - c[1]) <= nearby.radius
                    /\ Abs(pc[2] - c[2]) <= nearby.radius
        IN  /\ NoDup(nearby.result)
            /\ Range(nearby.result) = {p \in Range(particles) : InBlock(p)}

C7_Witness ==
    /\ AllInserted
    /\ nearby.radius = 2
    /\ Len(particles) = 2
    /\ Len(nearby.result) = 1

\* floor(x / cell_size), floor(y / cell_size)
FloorCell(x, y) == <<x \div cell_size, y \div cell_size>>

\* C8: insert files every agent under the cell (floor(x / cell_size),
\* floor(y / cell_size)), also at negative coordinates, and a query returns
\* the agents of the block around the floor cell of its centre.
C8_FloorCells ==
    AllInserted =>
        /\ \A c \in DOMAIN spatial_grid :
              \A p \in Range(spatial_grid[c]) : c = FloorCell(attr[p].x, attr[p].y)
        /\ nearby.radius >= 0 =>
              LET c == FloorCell(nearby.x, nearby.y)
              IN  Range(nearby.result) =
                     {p \in Range(particles) :
                         LET pc == FloorCell(attr[p].x, attr[p].y)
                         IN  /\ Abs(pc[1] - c[1]) <= nearby.radius
                             /\ Abs(pc[2] - c[2]) <= nearby.radius}

(***************************************************************************)
(* One infection pass over one zone: one Infected agent and                *)
(* ScenarioSusceptible Susceptible ones in the main pool, prob_infection   *)
(* 1.0 and an infection_radius longer than the diagonal of the zone.       *)
(***************************************************************************)
ScenarioSusceptible == 10

\* infection_radius: longer than the zone, or the largest validate() accepts
ScenarioRadii == {300, 50}

ScenarioParams ==
    {[BaseParams EXCEPT !.prob_infection = 100,
                        !.infection_radius = r,
                        !.num_particles = ScenarioSusceptible + 1]
       : r \in ScenarioRadii}

\* where the Susceptible agents stand: close to the Infected one, or in a
\* corner of the zone
NearPoints == <<<<30, 30>>, <<-10, -30>>>>
FarPoints == <<<<90, 90>>, <<-90, -90>>, <<70, 10>>, <<60, 10>>>>

\* where the Infected agent stands
InfectedPoints == {<<10, 10>>, <<19, 10>>}

\* agent 1 is the Infected one; the first `far` Susceptible agents stand far
ScenarioAgent(k, far, d, at) ==
    IF k = 1 THEN Particle(at[1], at[2], "infected", d)
    ELSE LET pt == IF k - 1 <= far THEN FarPoints[(k % Len(FarPoints)) + 1]
                   ELSE NearPoints[(k % Len(NearPoints)) + 1]
         IN  Particle(pt[1], pt[2], "susceptible", d)

InitScenario ==
    /\ mode = "simple"
    /\ params \in ScenarioParams
    /\ particles = [k \in 1..(ScenarioSusceptible + 1) |-> k]
    /\ \E far \in 0..ScenarioSusceptible, s \in Seeds, same \in BOOLEAN,
          at \in InfectedPoints :
          attr = [k \in 1..(ScenarioSusceptible + 1) |->
                     ScenarioAgent(k, far, IF same THEN Draws(s, 0) ELSE Draws(s, k),
                                   at)]
    /\ quarantine_particles = <<>>
    /\ communities = NoCommunities
    /\ spatial_grid = EmptyGrid
    /\ time_count = 0
    /\ day_count = 0
    /\ initial_population = ScenarioSusceptible + 1
    /\ stats_day = <<0>>
    /\ last_marketplace_day = -params.marketplace_interval
    /\ pass = [NoPass EXCEPT !.kind = "initialize"]
    /\ nearby = NoQuery
    /\ time_step = TimeStepOf(params.time_steps_per_day)

infection_pass ==
    /\ pass.kind = "initialize"
    /\ \E w \in _check_infections(World, particles) :
          /\ attr' = w.attr
          /\ spatial_grid' = w.spatial_grid
          /\ pass' = [w.pass EXCEPT !.kind = "_check_infections"]
    /\ UNCHANGED <<mode, params, particles, quarantine_particles, communities,
                   time_count, day_count, initial_population, stats_day,
                   last_marketplace_day, nearby, time_step>>

NextScenario == infection_pass

SpecScenario == InitScenario /\ [][NextScenario]_vars

C6_AllInfected ==
    (pass.kind = "_check_infections" /\ params.infection_radius = 300) =>
        /\ \A p \in Range(particles) : attr[p].state = "infected"
        /\ pass.new_infections = ScenarioSusceptible

====
